---- MODULE Spec2Model ----
(***************************************************************************)
(* HealthcareGenAI: the documents application.                             *)
(*                                                                         *)
(* State: the two tables (Document, Summary), the clock behind             *)
(* timezone.now(), and the position and locals of the one synchronous run  *)
(* of DocumentProcessingService.process_uploaded_document.  Every database *)
(* write of the run is a step of its own, so that the states between two   *)
(* writes are states of the model.                                         *)
(*                                                                         *)
(* Text is a sequence of tokens; " " and "\n" are the whitespace tokens.   *)
(* "" is the empty sequence.  None is 0 for timestamps and ids.            *)
(***************************************************************************)
EXTENDS Naturals, Sequences, FiniteSets

VARIABLES documents, summaries, now, pc, run, runs, selected, resp

vars == <<documents, summaries, now, pc, run, runs, selected, resp>>

(* ------------------------------ bounds -------------------------------- *)

MaxDocs == 1
MaxRuns == 2

(* ------------------------------ text ---------------------------------- *)

Whitespace == {" ", "\n"}

RECURSIVE LStrip(_)
LStrip(s) ==
    IF s # <<>> /\ Head(s) \in Whitespace THEN LStrip(Tail(s)) ELSE s

RECURSIVE RStrip(_)
RStrip(s) ==
    IF s # <<>> /\ s[Len(s)] \in Whitespace
    THEN RStrip(SubSeq(s, 1, Len(s) - 1))
    ELSE s

\* str.strip()
Strip(s) == RStrip(LStrip(s))

\* s[:n]
Truncate(s, n) == IF Len(s) <= n THEN s ELSE SubSeq(s, 1, n)

\* str.lower() of one token
LowerToken(t) ==
    CASE t = "PDF" -> "pdf"
      [] t = "PNG" -> "png"
      [] t = "JPG" -> "jpg"
      [] OTHER -> t

Lower(s) == [i \in 1..Len(s) |-> LowerToken(s[i])]

\* s.split(sep)[-1]: what follows the last sep, the whole of s without one
RECURSIVE SplitLast(_, _)
SplitLast(s, sep) ==
    IF \E i \in 1..Len(s) : s[i] = sep
    THEN SplitLast(Tail(s), sep)
    ELSE s

(* ------------------------------ files --------------------------------- *)

\* The content of a file PdfReader raises on.
Unreadable == <<"%unreadable%">>

Users == {"u1", "u2"}

\* The users who may make the next upload.  The code treats every user
\* alike, so the first row is u1's without loss of generality; any user may
\* own a later one.
Uploaders == IF documents = <<>> THEN {"u1"} ELSE Users

\* The uploads the model draws from: name, byte size, content.  A content is
\* Unreadable or the text of each page of the file; s.PNG is an image with
\* nothing to read in it.  (The form's FileField turns away a zero-byte file.)
UploadedFiles ==
    { [name |-> <<"r", ".", "pdf">>, size |-> 3,
       content |-> << <<"x">>, <<>>, <<"y", " ">> >>],
      [name |-> <<"w", ".", "PDF">>, size |-> 1, content |-> << <<" ">> >>],
      [name |-> <<"u", ".", "pdf">>, size |-> 2, content |-> Unreadable],
      [name |-> <<"s", ".", "PNG">>, size |-> 2, content |-> <<>>],
      [name |-> <<"n", ".", "txt">>, size |-> 3, content |-> << <<"x">> >>] }

\* upload_to='documents/%Y/%m/%d/'
UploadTo == <<"documents", "/">>

(* ---------------------------- models.py ------------------------------- *)

STATUS_CHOICES == {"pending", "processing", "completed", "failed"}

Terminal == {"completed", "failed"}

\* Document.save() with a fault: the derived fields are computed again on
\* every save of a row that has a file.
DocumentSaveDerive_EverySave(inst) ==
    IF inst.file.name # <<>>
    THEN LET fname == SplitLast(inst.file.name, "/")
         IN  [inst EXCEPT !.original_filename = fname,
                          !.file_type = Lower(SplitLast(fname, ".")),
                          !.file_size = inst.file.size]
    ELSE inst

\* Document.save(): the derived fields are set only while original_filename
\* is empty; the row written is the whole instance.
DocumentSaveDerive(inst) ==
    IF inst.file.name # <<>> /\ inst.original_filename = <<>>
    THEN LET fname == SplitLast(inst.file.name, "/")
         IN  [inst EXCEPT !.original_filename = fname,
                          !.file_type = Lower(SplitLast(fname, ".")),
                          !.file_size = inst.file.size]
    ELSE inst

\* The instance the upload form builds: defaults of the model's fields.
NewDocument(u, f, t) ==
    [user |-> u, file |-> f, original_filename |-> <<>>, file_type |-> <<>>,
     file_size |-> 0, status |-> "pending", uploaded_at |-> t,
     processed_at |-> 0, extracted_text |-> <<>>]

\* FileField.pre_save: the file is stored under upload_to on the first save.
StoreFile(inst) ==
    [inst EXCEPT !.file.name = UploadTo \o SplitLast(inst.file.name, "/")]

DocIds == 1..Len(documents)

\* doc.summaries: the Summary rows of document d, as ids.
SummariesOf(d) == {i \in 1..Len(summaries) : summaries[i].document = d}

get_final_text(s) == IF s.is_edited THEN s.edited_text ELSE s.summary_text

(* ---------------------------- ai_utils.py ----------------------------- *)

EntityKeys ==
    {"patient_info", "chief_complaint", "symptoms", "diagnosis",
     "medications", "treatment_plan", "vitals"}

NotExtracted == "Not extracted"

Placeholder == [k \in EntityKeys |-> NotExtracted]

\* What the hosted model's reply parses to, when it parses.
ParsedReply ==
    [k \in EntityKeys |-> IF k = "diagnosis" THEN "angina" ELSE "Not mentioned"]

\* {}
EmptyDict == [k \in {} |-> ""]

\* DocumentProcessor.extract_text_from_pdf: the pages with text, each followed
\* by a newline, stripped.  (It raises on an unreadable file: see Extract.)
RECURSIVE JoinPages(_)
JoinPages(pages) ==
    IF pages = <<>> THEN <<>>
    ELSE (IF Head(pages) # <<>> THEN Head(pages) \o <<"\n">> ELSE <<>>)
         \o JoinPages(Tail(pages))

extract_text_from_pdf(content) == Strip(JoinPages(content))

\* DocumentProcessor.extract_text_from_image: the OCR stub.
extract_text_from_image(content) ==
    <<"OCR functionality coming soon. Upload PDF documents for now.">>

ImageTypes == {<<"jpg">>, <<"jpeg">>, <<"png">>}

\* text[:4000] and text[:5000]
EntityBudget == 4000
SummaryBudget == 5000

\* The hosted model's part in extract_medical_entities: chain.invoke or
\* output_parser.parse raises (one try covers both), or the reply parses.
EntityOutcomes == {"raises", "parsed"}

\* extract_medical_entities with a fault: the except branch returns {}.
extract_medical_entities_EmptyOnError(outcome) ==
    IF outcome = "parsed" THEN ParsedReply ELSE EmptyDict

extract_medical_entities(outcome) ==
    IF outcome = "parsed" THEN ParsedReply ELSE Placeholder

\* The hosted model's part in a generate_* method.
SummaryOutcomes == {"call_raises", "reply"}

\* The reply's text before .strip(), and str(e) of a failed call.
ReplyText == <<"\n", "Summary", " ">>
CallError == "quota exceeded"

\* SelectTemplate with a fault: the lab_report branch is missing.
SelectTemplate_NoLabReport(doc_type) ==
    CASE doc_type = "discharge" -> "discharge_prompt"
      [] doc_type = "referral" -> "referral_prompt"
      [] doc_type = "insurance" -> "authorization_prompt"
      [] OTHER -> "summary_prompt"

\* SelectTemplate with a fault: the template is picked from what entity
\* extraction found in the text, and from the tag only when it found nothing.
SelectTemplate_ByContent(doc_type) ==
    IF run.entity_outcome = "parsed" THEN "discharge_prompt"
    ELSE CASE doc_type = "discharge" -> "discharge_prompt"
           [] doc_type = "referral" -> "referral_prompt"
           [] doc_type = "insurance" -> "authorization_prompt"
           [] doc_type = "lab_report" -> "lab_report_prompt"
           [] OTHER -> "summary_prompt"

\* The branch process_document takes on doc_type.
SelectTemplate(doc_type) ==
    CASE doc_type = "discharge" -> "discharge_prompt"
      [] doc_type = "referral" -> "referral_prompt"
      [] doc_type = "insurance" -> "authorization_prompt"
      [] doc_type = "lab_report" -> "lab_report_prompt"
      [] OTHER -> "summary_prompt"

\* The except branch of each generate_* method.
ErrorPrefix(template) ==
    CASE template = "discharge_prompt" -> "Error generating discharge summary: "
      [] template = "referral_prompt" -> "Error generating referral letter: "
      [] template = "authorization_prompt" ->
             "Error generating insurance authorization: "
      [] template = "lab_report_prompt" -> "Error generating lab report summary: "
      [] OTHER -> "Error generating summary: "

\* generate with a fault: a failed call leaves the summary empty.
generate_EmptyOnError(template, outcome) ==
    IF outcome = "reply" THEN Strip(ReplyText) ELSE <<>>

\* A generate_* method: the stripped reply, or the inline error string.
generate(template, outcome) ==
    IF outcome = "reply" THEN Strip(ReplyText)
    ELSE <<ErrorPrefix(template), CallError>>

\* The document-type tags callers pass: the four of test_documents.py, the
\* default of process_uploaded_document, and the specification's spelling of
\* the lab report tag.
DocTypes ==
    {"general", "discharge", "referral", "insurance", "lab_report",
     "lab-report"}

(* ------------------------------ state --------------------------------- *)

NoFile == [name |-> <<>>, size |-> 0, content |-> <<>>]

NoDocument == NewDocument("", NoFile, 0)

\* results of AgentOrchestrator.process_document as it starts
NewResults ==
    [status |-> "processing", extracted_text |-> <<>>, entities |-> EmptyDict,
     summary |-> <<>>, error |-> ""]

\* The locals of one call of process_uploaded_document.  existed and pre are
\* the row as the call found it, pre_summaries the number of Summary rows it
\* found; calls are the requests that reached the hosted model; ret is "None"
\* until the call returns.
NewRun(d, t) ==
    [document_id |-> d, doc_type |-> t, document |-> NoDocument,
     results |-> NewResults, calls |-> <<>>, ret |-> "None",
     entity_outcome |-> "none", summary_outcome |-> "none",
     existed |-> d \in DocIds,
     pre |-> IF d \in DocIds THEN documents[d] ELSE NoDocument,
     pre_summaries |-> Len(summaries)]

\* No call of the service is in progress.
NoRun == [NewRun(0, "general") EXCEPT !.existed = FALSE, !.pre = NoDocument,
                                     !.pre_summaries = 0]

NoResp ==
    [op |-> "none", user |-> "", document_id |-> 0, code |-> 0,
     summary |-> 0, summary_html |-> <<>>, docs |-> <<>>]

Init ==
    /\ documents = <<>>
    /\ summaries = <<>>
    /\ now = 1
    /\ pc = "idle"
    /\ run = NoRun
    /\ runs = 0
    /\ selected = {}
    /\ resp = NoResp

(* ----------------------------- views.py ------------------------------- *)

\* upload_document, POST with a valid form: the row is created, then
\* process_uploaded_document(doc.id) is called with the default doc_type.
upload_document(u, f) ==
    /\ pc = "idle"
    /\ Len(documents) < MaxDocs
    /\ runs < MaxRuns
    /\ LET inst == StoreFile(DocumentSaveDerive(NewDocument(u, f, now)))
           docs1 == Append(documents, inst)
       IN  /\ documents' = docs1
           /\ run' = [NewRun(Len(docs1), "general")
                        EXCEPT !.existed = TRUE, !.pre = inst]
    /\ now' = now + 1
    /\ runs' = runs + 1
    /\ pc' = "load"
    /\ UNCHANGED resp
    /\ UNCHANGED <<summaries, selected>>

(* ---------------------------- services.py ----------------------------- *)

\* A caller other than the upload view (test_documents.py, a shell) calls
\* process_uploaded_document(document_id, doc_type).  The code looks at no
\* field of the row before it starts.
process_uploaded_document(d, t) ==
    /\ pc = "idle"
    /\ runs < MaxRuns
    /\ run' = NewRun(d, t)
    /\ runs' = runs + 1
    /\ pc' = "load"
    /\ UNCHANGED resp
    /\ UNCHANGED <<documents, summaries, now, selected>>

\* Document.objects.get(id=document_id); DoesNotExist goes to the handler.
LoadDocument ==
    /\ pc = "load"
    /\ IF run.document_id \in DocIds
       THEN /\ run' = [run EXCEPT !.document = documents[run.document_id]]
            /\ pc' = "mark_processing"
       ELSE /\ run' = run
            /\ pc' = "handler"
    /\ UNCHANGED resp
    /\ UNCHANGED <<documents, summaries, now, runs, selected>>

\* ProcessingStatus with a fault: the run starts by putting the row back to
\* 'pending'.
ProcessingStatus_Pending == "pending"

\* The status the service writes as it starts.
ProcessingStatus == "processing"

\* document.status = 'processing'; document.save()
MarkProcessing ==
    /\ pc = "mark_processing"
    /\ LET inst == DocumentSaveDerive([run.document EXCEPT !.status = ProcessingStatus])
       IN  /\ run' = [run EXCEPT !.document = inst]
           /\ documents' = [documents EXCEPT ![run.document_id] = inst]
    /\ pc' = "extract"
    /\ UNCHANGED resp
    /\ UNCHANGED <<summaries, now, runs, selected>>

\* file_type = document.file_type or 'pdf'
FileTypeOrPdf(inst) == IF inst.file_type # <<>> THEN inst.file_type ELSE <<"pdf">>

\* The first half of AgentOrchestrator.process_document: the text of the file,
\* or the exception raised on the way to it.
ExtractText(file_type, content) ==
    LET ft == Lower(file_type) IN
    IF ft = <<"pdf">>
    THEN IF content = Unreadable
         THEN [raised |-> TRUE, text |-> <<>>,
               error |-> "Error extracting PDF text: "]
         ELSE LET text == extract_text_from_pdf(content)
              IN  [raised |-> text = <<>>, text |-> text,
                   error |-> IF text = <<>>
                             THEN "No text could be extracted from document"
                             ELSE ""]
    ELSE IF ft \in ImageTypes
    THEN LET text == extract_text_from_image(content)
         IN  [raised |-> text = <<>>, text |-> text,
              error |-> IF text = <<>>
                        THEN "No text could be extracted from document"
                        ELSE ""]
    ELSE [raised |-> TRUE, text |-> <<>>, error |-> "Unsupported file type: "]

\* The call of orchestrator.process_document up to its first use of the hosted
\* model; an exception ends it with results["status"] = "failed".
Extract ==
    /\ pc = "extract"
    /\ LET x == ExtractText(FileTypeOrPdf(run.document), run.document.file.content)
       IN  IF x.raised
           THEN /\ run' = [run EXCEPT !.results.extracted_text = x.text,
                                      !.results.status = "failed",
                                      !.results.error = x.error]
                /\ pc' = "mark_failed"
           ELSE /\ run' = [run EXCEPT !.results.extracted_text = x.text]
                /\ pc' = "entities"
    /\ UNCHANGED resp
    /\ UNCHANGED <<documents, summaries, now, runs, selected>>

\* results["entities"] = self.assistant.extract_medical_entities(text)
ExtractEntities(outcome) ==
    /\ pc = "entities"
    /\ run' = [run EXCEPT
                 !.calls = Append(@, [kind |-> "entities",
                                      template |-> "entity_prompt",
                                      document_type |-> "",
                                      text |-> Truncate(run.results.extracted_text,
                                                        EntityBudget)]),
                 !.entity_outcome = outcome,
                 !.results.entities = extract_medical_entities(outcome)]
    /\ pc' = "summary"
    /\ UNCHANGED resp
    /\ UNCHANGED <<documents, summaries, now, runs, selected>>

\* The if/elif chain on doc_type, the generate_* call it selects, and
\* results["status"] = "completed".
GenerateSummary(outcome) ==
    /\ pc = "summary"
    /\ LET template == SelectTemplate(run.doc_type)
       IN  /\ run' = [run EXCEPT
                        !.calls = Append(@, [kind |-> "summary",
                                             template |-> template,
                                             document_type |->
                                                 IF template = "summary_prompt"
                                                 THEN run.doc_type ELSE "",
                                             text |-> Truncate(run.results.extracted_text,
                                                               SummaryBudget)]),
                        !.summary_outcome = outcome,
                        !.results.summary = generate(template, outcome),
                        !.results.status = "completed"]
           /\ selected' = selected \cup {<<run.doc_type, template>>}
    /\ pc' = "save_completed"
    /\ UNCHANGED resp
    /\ UNCHANGED <<documents, summaries, now, runs>>

\* The status the service writes on a completed result.
CompletedStatus == "completed"

\* if results["status"] == "completed": the document's fields; document.save()
SaveCompleted ==
    /\ pc = "save_completed"
    /\ LET inst == DocumentSaveDerive(
                       [run.document EXCEPT
                          !.extracted_text = run.results.extracted_text,
                          !.status = CompletedStatus,
                          !.processed_at = now])
       IN  /\ run' = [run EXCEPT !.document = inst]
           /\ documents' = [documents EXCEPT ![run.document_id] = inst]
    /\ now' = now + 1
    /\ pc' = "create_summary"
    /\ UNCHANGED resp
    /\ UNCHANGED <<summaries, runs, selected>>

\* The row Summary.objects.create(...) inserts.
NewSummary(d, results, t) ==
    [document |-> d, summary_text |-> results.summary,
     extracted_entities |-> results.entities,
     model_used |-> "gemini-2.0-flash", confidence_score |-> "0.85",
     is_edited |-> FALSE, edited_text |-> <<>>,
     created_at |-> t, edited_at |-> 0]

\* CreateSummary with a fault: update_or_create in place of create, so a
\* Document keeps one Summary, which each successful run overwrites.
CreateSummary_UpdateOrCreate ==
    /\ pc = "create_summary"
    /\ LET row == NewSummary(run.document_id, run.results, now)
       IN  IF SummariesOf(run.document_id) # {}
           THEN summaries' = [summaries EXCEPT
                                ![CHOOSE i \in SummariesOf(run.document_id) : TRUE] = row]
           ELSE summaries' = Append(summaries, row)
    /\ now' = now + 1
    /\ run' = [run EXCEPT !.ret = "True"]
    /\ pc' = "returned"
    /\ UNCHANGED resp
    /\ UNCHANGED <<documents, runs, selected>>

\* Summary.objects.create(...); return True
CreateSummary ==
    /\ pc = "create_summary"
    /\ summaries' = Append(summaries, NewSummary(run.document_id, run.results, now))
    /\ now' = now + 1
    /\ run' = [run EXCEPT !.ret = "True"]
    /\ pc' = "returned"
    /\ UNCHANGED resp
    /\ UNCHANGED <<documents, runs, selected>>

\* FailedStatus with a fault: the failed branch saves the row with the status
\* the run gave it when it started.
FailedStatus_Processing == "processing"

\* The status the service writes on a failed result.
FailedStatus == "failed"

\* FailedInstance with a fault: the failed branch copies the completed
\* branch's assignments.
FailedInstance_Stamped(inst) ==
    [inst EXCEPT !.status = FailedStatus,
                 !.extracted_text = run.results.extracted_text,
                 !.processed_at = now]

\* else: document.status = 'failed': the only field the branch assigns.
FailedInstance(inst) == [inst EXCEPT !.status = FailedStatus]

\* else: document.status = 'failed'; document.save(); return False
MarkFailed ==
    /\ pc = "mark_failed"
    /\ LET inst == DocumentSaveDerive(FailedInstance(run.document))
       IN  /\ run' = [run EXCEPT !.document = inst, !.ret = "False"]
           /\ documents' = [documents EXCEPT ![run.document_id] = inst]
    /\ pc' = "returned"
    /\ UNCHANGED resp
    /\ UNCHANGED <<summaries, now, runs, selected>>

\* except Exception: the row is read again and marked failed, if it is there;
\* return False
ExceptionHandler ==
    /\ pc = "handler"
    /\ IF run.document_id \in DocIds
       THEN LET inst == DocumentSaveDerive(
                            [documents[run.document_id] EXCEPT !.status = "failed"])
            IN  /\ run' = [run EXCEPT !.document = inst, !.ret = "False"]
                /\ documents' = [documents EXCEPT ![run.document_id] = inst]
       ELSE /\ run' = [run EXCEPT !.ret = "False"]
            /\ documents' = documents
    /\ pc' = "returned"
    /\ UNCHANGED resp
    /\ UNCHANGED <<summaries, now, runs, selected>>

\* The call has returned True or False to its caller; its locals are gone.
Return ==
    /\ pc = "returned"
    /\ run' = NoRun
    /\ pc' = "idle"
    /\ UNCHANGED resp
    /\ UNCHANGED <<documents, summaries, now, runs, selected>>

(* -------------------------- test_documents.py ------------------------- *)

\* doc = Document.objects.first(); doc.status = 'pending'; doc.save(): the
\* caller's explicit reset of a row, between two calls of the service.
ManualReset(d) ==
    /\ pc = "idle"
    /\ d \in DocIds
    /\ documents' = [documents EXCEPT
                       ![d] = DocumentSaveDerive([documents[d] EXCEPT !.status = "pending"])]
    /\ UNCHANGED resp
    /\ UNCHANGED <<summaries, now, pc, run, runs, selected>>

(* ------------------------------ admin.py ------------------------------ *)

\* The file an administrator puts in place of a stored one: another name,
\* another extension, another size, the same pages.
ReplacedFile(file) ==
    [file EXCEPT !.name = UploadTo \o <<"v2", ".", "JPG">>, !.size = @ + 1]

\* DocumentAdmin's change form, with 'file' among its fields: the file of a
\* row is replaced and the row saved, every other field as it was.
AdminChangeFile(d) ==
    /\ pc = "idle"
    /\ d \in DocIds
    /\ documents[d].file.name # ReplacedFile(documents[d].file).name
    /\ documents' = [documents EXCEPT
                       ![d] = DocumentSaveDerive(
                                  [documents[d] EXCEPT !.file = ReplacedFile(@)])]
    /\ UNCHANGED resp
    /\ UNCHANGED <<summaries, now, pc, run, runs, selected>>

(* ------------------------- views.py, reading -------------------------- *)

\* A queryset of summaries under Meta.ordering ['-created_at'], as ids.
RECURSIVE OrderByCreatedDesc(_)
OrderByCreatedDesc(S) ==
    IF S = {} THEN <<>>
    ELSE LET m == CHOOSE i \in S :
                      \A j \in S : summaries[j].created_at <= summaries[i].created_at
         IN  <<m>> \o OrderByCreatedDesc(S \ {m})

Reverse(q) == [i \in 1..Len(q) |-> q[Len(q) + 1 - i]]

\* QuerySet.last(): the first row of the reversed ordering, None (0) if empty.
QuerySetLast(q) == IF q = <<>> THEN 0 ELSE Reverse(q)[1]

\* markdown2.markdown(text)
Markdown(text) == <<"<p>">> \o text \o <<"</p>", "\n">>

\* summary_detail_response with a fault: the row is looked up by id alone,
\* without user=request.user.
summary_detail_response_AnyUser(u, d) ==
    IF d \in DocIds
    THEN LET summary == QuerySetLast(OrderByCreatedDesc(SummariesOf(d)))
         IN  [op |-> "summary_detail", user |-> u, document_id |-> d,
              code |-> 200, summary |-> summary,
              summary_html |->
                  IF summary # 0
                  THEN Markdown(get_final_text(summaries[summary]))
                  ELSE <<>>,
              docs |-> <<>>]
    ELSE [op |-> "summary_detail", user |-> u, document_id |-> d,
          code |-> 404, summary |-> 0, summary_html |-> <<>>, docs |-> <<>>]

\* summary_detail_response with a fault: the `if summary:` guard is missing,
\* so None.get_final_text() raises and the request ends in a server error.
summary_detail_response_Unguarded(u, d) ==
    IF d \in DocIds /\ documents[d].user = u
    THEN LET summary == QuerySetLast(OrderByCreatedDesc(SummariesOf(d)))
         IN  IF summary # 0
             THEN [op |-> "summary_detail", user |-> u, document_id |-> d,
                   code |-> 200, summary |-> summary,
                   summary_html |-> Markdown(get_final_text(summaries[summary])),
                   docs |-> <<>>]
             ELSE [op |-> "summary_detail", user |-> u, document_id |-> d,
                   code |-> 500, summary |-> 0, summary_html |-> <<>>,
                   docs |-> <<>>]
    ELSE [op |-> "summary_detail", user |-> u, document_id |-> d,
          code |-> 404, summary |-> 0, summary_html |-> <<>>, docs |-> <<>>]

\* What summary_detail(request, document_id) renders for user u: 404 unless
\* the row is u's; else doc, summary = doc.summaries.last() and its HTML.
summary_detail_response(u, d) ==
    IF d \in DocIds /\ documents[d].user = u
    THEN LET summary == QuerySetLast(OrderByCreatedDesc(SummariesOf(d)))
         IN  [op |-> "summary_detail", user |-> u, document_id |-> d,
              code |-> 200, summary |-> summary,
              summary_html |->
                  IF summary # 0
                  THEN Markdown(get_final_text(summaries[summary]))
                  ELSE <<>>,
              docs |-> <<>>]
    ELSE [op |-> "summary_detail", user |-> u, document_id |-> d,
          code |-> 404, summary |-> 0, summary_html |-> <<>>, docs |-> <<>>]

\* Requests are handled one at a time: a view is served between two runs, and
\* its response is out before the next request comes in.
summary_detail(u, d) ==
    /\ pc = "idle"
    /\ resp' = summary_detail_response(u, d)
    /\ pc' = "responded"
    /\ UNCHANGED <<documents, summaries, now, run, runs, selected>>

\* Document.objects.filter(user=...) under Meta.ordering ['-uploaded_at']
RECURSIVE OrderByUploadedDesc(_)
OrderByUploadedDesc(S) ==
    IF S = {} THEN <<>>
    ELSE LET m == CHOOSE d \in S :
                      \A e \in S : documents[e].uploaded_at <= documents[d].uploaded_at
         IN  <<m>> \o OrderByUploadedDesc(S \ {m})

\* What document_list(request) renders for user u.
document_list_response(u) ==
    [op |-> "document_list", user |-> u, document_id |-> 0,
     code |-> 200, summary |-> 0, summary_html |-> <<>>,
     docs |-> OrderByUploadedDesc({d \in DocIds : documents[d].user = u})]

document_list(u) ==
    /\ pc = "idle"
    /\ resp' = document_list_response(u)
    /\ pc' = "responded"
    /\ UNCHANGED <<documents, summaries, now, run, runs, selected>>

\* SOAPNoteGenerator.generate_soap_pdf(doc_data, summary_text, entities): it
\* is given plain values, no row; it hands back a PDF buffer or raises.
SoapOutcomes == {"pdf", "raises"}

\* generate_soap_pdf_response with a fault: the Summary is read with
\* filter(document=document).first() in place of get(document=document).
generate_soap_pdf_response_First(d, outcome) ==
    IF d \in DocIds /\ SummariesOf(d) # {} /\ outcome = "pdf"
    THEN [op |-> "generate_soap_pdf", user |-> "", document_id |-> d,
          code |-> 200,
          summary |-> OrderByCreatedDesc(SummariesOf(d))[1],
          summary_html |-> <<>>, docs |-> <<>>]
    ELSE [op |-> "generate_soap_pdf", user |-> "", document_id |-> d,
          code |-> 500, summary |-> 0, summary_html |-> <<>>, docs |-> <<>>]

\* DocumentProcessingService.generate_soap_pdf(document_id): each of the two
\* gets must find exactly one row and the generator must hand back a buffer,
\* or the method raises (code 500); code 200 is the FileResponse, made from
\* the one Summary.
generate_soap_pdf_response(d, outcome) ==
    IF d \in DocIds /\ Cardinality(SummariesOf(d)) = 1 /\ outcome = "pdf"
    THEN [op |-> "generate_soap_pdf", user |-> "", document_id |-> d,
          code |-> 200, summary |-> CHOOSE i \in SummariesOf(d) : TRUE,
          summary_html |-> <<>>, docs |-> <<>>]
    ELSE [op |-> "generate_soap_pdf", user |-> "", document_id |-> d,
          code |-> 500, summary |-> 0, summary_html |-> <<>>, docs |-> <<>>]

generate_soap_pdf(d, outcome) ==
    /\ pc = "idle"
    /\ resp' = generate_soap_pdf_response(d, outcome)
    /\ pc' = "responded"
    /\ UNCHANGED <<documents, summaries, now, run, runs, selected>>

\* The response of a view has been sent.
EndRequest ==
    /\ pc = "responded"
    /\ resp' = NoResp
    /\ pc' = "idle"
    /\ UNCHANGED <<documents, summaries, now, run, runs, selected>>

(* --------------------------- specification ---------------------------- *)

\* Ids a request may name: every row's, and one that names no row.
RequestIds == 1..(Len(documents) + 1)

Next ==
    \/ \E u \in Uploaders, f \in UploadedFiles : upload_document(u, f)
    \/ \E d \in RequestIds, t \in DocTypes : process_uploaded_document(d, t)
    \/ LoadDocument
    \/ MarkProcessing
    \/ Extract
    \/ \E o \in EntityOutcomes : ExtractEntities(o)
    \/ \E o \in SummaryOutcomes : GenerateSummary(o)
    \/ SaveCompleted
    \/ CreateSummary
    \/ MarkFailed
    \/ ExceptionHandler
    \/ Return
    \/ \E d \in DocIds : ManualReset(d)
    \/ \E d \in DocIds : AdminChangeFile(d)
    \/ \E u \in Users, d \in RequestIds : summary_detail(u, d)
    \/ \E u \in Users : document_list(u)
    \/ \E d \in RequestIds, o \in SoapOutcomes : generate_soap_pdf(d, o)
    \/ EndRequest

Spec == Init /\ [][Next]_vars

TypeOK ==
    /\ pc \in {"idle", "load", "mark_processing", "extract", "entities", "summary",
               "save_completed", "create_summary", "mark_failed", "handler",
               "returned", "responded"}
    /\ \A d \in DocIds : documents[d].status \in STATUS_CHOICES
    /\ \A i \in 1..Len(summaries) : summaries[i].document \in DocIds
    /\ runs <= MaxRuns

(* ------------------------------ claims -------------------------------- *)

\* The run in progress has written its last status and is about to return.
Returned == pc = "returned"

\* C1: in every persisted state, the states between the writes of
\* process_uploaded_document included, a Document whose status is
\* 'completed' has at least one Summary.
C1_CompletedHasSummary ==
    \A d \in DocIds :
        documents[d].status = "completed" => SummariesOf(d) # {}

\* C2: a step that changes a Document's terminal status (completed or
\* failed) is the caller's explicit reset; the service itself never moves a
\* status out of a terminal state.
C2_TerminalStatusIsFinal ==
    [][\A d \in DocIds :
          documents[d].status \in Terminal =>
              (documents'[d].status = documents[d].status \/ ManualReset(d))]_vars

\* C3: no operation writes 'pending' over another status of an existing
\* Document, a terminal one in particular, other than the caller's explicit
\* reset; 'pending' otherwise appears only on the row an upload creates.
C3_PendingOnlyByReset ==
    [][/\ \A d \in DocIds :
             (documents[d].status # "pending" /\ documents'[d].status = "pending")
                 => ManualReset(d)
       /\ \A d \in (1..Len(documents')) \ DocIds :
             documents'[d].status = "pending"]_vars

\* C3's case: a whole run of the service has acted on a Document that was
\* completed or failed when the run began, and has written its last status.
C3_Witness ==
    /\ Returned
    /\ run.existed
    /\ run.pre.status \in Terminal
    /\ documents[run.document_id].status \in Terminal

\* The file types process_document has a branch for.
AcceptedType(inst) ==
    Lower(FileTypeOrPdf(inst)) \in ({<<"pdf">>} \cup ImageTypes)

\* A stored file with no content, or one the reader cannot read.
EmptyOrUnreadable(content) == content = <<>> \/ content = Unreadable

\* C4: for a stored file of any accepted type whose content is empty or
\* unreadable, a run ends with the Document 'failed', never 'completed'.
C4_EmptyOrUnreadableFails ==
    (Returned /\ run.existed /\ AcceptedType(run.pre)
       /\ EmptyOrUnreadable(run.pre.file.content))
        => /\ run.ret = "False"
           /\ documents[run.document_id].status = "failed"

\* The Summary row the run in progress has created, once it has.
NewestRow == summaries[Len(summaries)]

\* C5: when the text is non-empty and the hosted model's entity call, or the
\* parsing of its reply, raises, the run goes on to summarization and ends
\* 'completed' with one new Summary, whose entity map maps each of the
\* seven schema keys to "Not extracted".
C5_EntityErrorDegrades ==
    (run.results.extracted_text # <<>>
       /\ run.entity_outcome = "raises")
        => /\ pc \in {"summary", "save_completed", "create_summary", "returned"}
           /\ Returned =>
                 /\ run.ret = "True"
                 /\ \E i \in 1..Len(run.calls) : run.calls[i].kind = "summary"
                 /\ documents[run.document_id].status = "completed"
                 /\ Len(summaries) = run.pre_summaries + 1
                 /\ NewestRow.document = run.document_id
                 /\ NewestRow.extracted_entities =
                        [k \in {"patient_info", "chief_complaint", "symptoms",
                                "diagnosis", "medications", "treatment_plan",
                                "vitals"} |-> "Not extracted"]

\* C5's case: a run whose entity call raised has returned.
C5_Witness ==
    /\ Returned
    /\ run.entity_outcome = "raises"
    /\ run.ret = "True"

\* The inline error strings of the five generate_* methods.
ErrorStrings ==
    {"Error generating summary: ", "Error generating discharge summary: ",
     "Error generating referral letter: ",
     "Error generating insurance authorization: ",
     "Error generating lab report summary: "}

\* C6: when the text is non-empty and the hosted model's summarization call
\* raises, whatever the tag, the result is 'completed' with an inline error
\* string as its summary, the run ends 'completed', and one new Summary
\* holding that error string is persisted.
C6_SummaryErrorInline ==
    (run.results.extracted_text # <<>> /\ run.summary_outcome = "call_raises")
        => /\ pc \in {"save_completed", "create_summary", "returned"}
           /\ run.results.status = "completed"
           /\ run.results.summary \in {<<e, CallError>> : e \in ErrorStrings}
           /\ Returned =>
                 /\ run.ret = "True"
                 /\ documents[run.document_id].status = "completed"
                 /\ Len(summaries) = run.pre_summaries + 1
                 /\ NewestRow.document = run.document_id
                 /\ NewestRow.summary_text = run.results.summary

\* C6's case: a run with a tag of its own template, whose summarization call
\* raised, has returned.
C6_Witness ==
    /\ Returned
    /\ run.summary_outcome = "call_raises"
    /\ run.doc_type = "referral"
    /\ NewestRow.summary_text = <<"Error generating referral letter: ", CallError>>

\* The run in progress has failed before any use of the hosted model: the
\* row was not found, or extraction raised (unreadable file, unsupported
\* type, empty text).
FailedEarly ==
    \/ run.results.status = "failed"
    \/ ~run.existed /\ pc \in {"handler", "returned"}

\* C7: a run that fails in loading the row, in extraction, on an unsupported
\* type or on empty text never calls the hosted model, creates no Summary,
\* leaves extracted_text and processed_at as they were, and ends with the
\* Document, if there is one, 'failed'.
C7_FailedRunFrame ==
    FailedEarly
        => /\ run.calls = <<>>
           /\ Len(summaries) = run.pre_summaries
           /\ run.existed =>
                 /\ documents[run.document_id].extracted_text = run.pre.extracted_text
                 /\ documents[run.document_id].processed_at = run.pre.processed_at
           /\ Returned =>
                 /\ run.ret = "False"
                 /\ run.existed => documents[run.document_id].status = "failed"

\* C7's case: a run on an existing row has failed in extraction and returned.
C7_Witness ==
    /\ Returned
    /\ run.existed
    /\ run.results.status = "failed"
    /\ run.results.error = "No text could be extracted from document"

\* The Summary of document d with the latest created_at.
LatestSummary(d) ==
    CHOOSE i \in SummariesOf(d) :
        \A j \in SummariesOf(d) : summaries[j].created_at <= summaries[i].created_at

\* C8: for a Document with two or more Summaries, summary_detail shows its
\* owner the Summary with the latest created_at.
C8_DetailShowsLatest ==
    (pc = "responded" /\ resp.op = "summary_detail" /\ resp.code = 200
       /\ Cardinality(SummariesOf(resp.document_id)) >= 2)
        => resp.summary = LatestSummary(resp.document_id)

\* C9, as the specification words it: each of the tags general, discharge,
\* referral, insurance and lab-report selects its own template.
C9_SpecTagsOwnTemplate ==
    \A p \in selected :
        /\ p[1] = "general" => p[2] = "summary_prompt"
        /\ p[1] = "discharge" => p[2] = "discharge_prompt"
        /\ p[1] = "referral" => p[2] = "referral_prompt"
        /\ p[1] = "insurance" => p[2] = "authorization_prompt"
        /\ p[1] = "lab-report" => p[2] = "lab_report_prompt"

\* C9, amended: each of the tags general, discharge, referral, insurance and
\* lab_report selects its own one of the five templates; the tag spelled
\* lab-report has no branch and selects the general template.
C9_CodeTagsOwnTemplate ==
    \A p \in selected :
        /\ p[1] = "general" => p[2] = "summary_prompt"
        /\ p[1] = "discharge" => p[2] = "discharge_prompt"
        /\ p[1] = "referral" => p[2] = "referral_prompt"
        /\ p[1] = "insurance" => p[2] = "authorization_prompt"
        /\ p[1] = "lab_report" => p[2] = "lab_report_prompt"
        /\ p[1] = "lab-report" => p[2] = "summary_prompt"

\* C9's case: runs tagged general and lab_report have each selected a
\* template.
C9_Witness ==
    {<<"general", "summary_prompt">>, <<"lab_report", "lab_report_prompt">>}
        \subseteq selected

C11_NoSummaryRendersEmpty ==
    /\ \A d \in DocIds :
          SummariesOf(d) = {} =>
              LET r == summary_detail_response(documents[d].user, d)
              IN  r.code = 200 /\ r.summary = 0 /\ r.summary_html = <<>>
    /\ (pc = "responded" /\ resp.op = "summary_detail"
          /\ resp.document_id \in DocIds
          /\ documents[resp.document_id].user = resp.user
          /\ SummariesOf(resp.document_id) = {})
         => resp.code = 200 /\ resp.summary = 0 /\ resp.summary_html = <<>>

\* C11's case: the owner of a failed Document with no Summary has been sent
\* the summary_detail page.
C11_Witness ==
    /\ pc = "responded"
    /\ resp.op = "summary_detail"
    /\ resp.document_id \in DocIds
    /\ documents[resp.document_id].user = resp.user
    /\ documents[resp.document_id].status = "failed"
    /\ SummariesOf(resp.document_id) = {}
    /\ resp.code = 200

\* C12: a call of process_uploaded_document on an existing Document that
\* returns has returned True exactly when the Document is 'completed' and the
\* run has added a Summary of it, and False exactly when the Document is
\* 'failed'; the Document is never left 'pending' or 'processing'.  A call
\* that names no Document returns False, and none of its steps changes a row
\* of either table.
C12_ReturnMatchesStatus ==
    /\ [](Returned =>
            IF run.existed
            THEN LET status == documents[run.document_id].status
                     added == /\ Len(summaries) = run.pre_summaries + 1
                              /\ NewestRow.document = run.document_id
                 IN  /\ run.ret \in {"True", "False"}
                     /\ run.ret = "True" <=> (status = "completed" /\ added)
                     /\ run.ret = "False" <=> status = "failed"
                     /\ run.ret = "False" => Len(summaries) = run.pre_summaries
                     /\ status \notin {"pending", "processing"}
            ELSE run.ret = "False")
    /\ [][(pc \in {"load", "handler", "returned"} /\ ~run.existed)
            => UNCHANGED <<documents, summaries>>]_vars

\* C12's case: a call on an existing, pending Document has returned False.
C12_Witness ==
    /\ Returned
    /\ run.existed
    /\ run.pre.status = "pending"
    /\ run.ret = "False"
    /\ documents[run.document_id].status = "failed"

\* The not-found answer to user u asking for document id d: it carries the
\* request and nothing of any row.
NotFound(u, d) ==
    [NoResp EXCEPT !.op = "summary_detail", !.user = u, !.document_id = d,
                   !.code = 404]

\* C13: in every state, the list rendered for a user holds only Documents of
\* that user, and summary_detail asked by a user who does not own the
\* Document answers not-found, with nothing of the Document or its
\* Summaries; and so does every response the two views have sent.
C13_OwnerScoped ==
    /\ \A u \in Users :
          LET docs == document_list_response(u).docs
          IN  \A i \in 1..Len(docs) : documents[docs[i]].user = u
    /\ \A u \in Users, d \in DocIds :
          documents[d].user # u => summary_detail_response(u, d) = NotFound(u, d)
    /\ (pc = "responded" /\ resp.op = "document_list")
         => \A i \in 1..Len(resp.docs) : documents[resp.docs[i]].user = resp.user
    /\ (pc = "responded" /\ resp.op = "summary_detail"
          /\ resp.document_id \in DocIds
          /\ documents[resp.document_id].user # resp.user)
         => resp = NotFound(resp.user, resp.document_id)

\* C13's case: a user has asked summary_detail for a completed Document of
\* another user that has a Summary, and has been answered.
C13_Witness ==
    /\ pc = "responded"
    /\ resp.op = "summary_detail"
    /\ resp.document_id \in DocIds
    /\ documents[resp.document_id].user # resp.user
    /\ documents[resp.document_id].status = "completed"
    /\ SummariesOf(resp.document_id) # {}
    /\ resp.code = 404

\* C14: the row a first save writes has original_filename, file_type and
\* file_size derived from the file it was given, and no later step, the
\* status-changing saves of a run and the saves after the stored file has
\* another name and size included, changes any of the three.
C14_DerivedFieldsFixed ==
    [][/\ \A d \in DocIds :
             /\ documents'[d].original_filename = documents[d].original_filename
             /\ documents'[d].file_type = documents[d].file_type
             /\ documents'[d].file_size = documents[d].file_size
       /\ \A d \in (1..Len(documents')) \ DocIds :
             LET row == documents'[d]
             IN  /\ row.original_filename # <<>>
                 /\ row.file.name = UploadTo \o row.original_filename
                 /\ row.file_type = Lower(SplitLast(row.original_filename, "."))
                 /\ row.file_size = row.file.size]_vars

\* C14's case: a run has saved a status on a row whose stored file no longer
\* has the name and size its derived fields came from.
C14_Witness ==
    /\ Returned
    /\ run.existed
    /\ run.pre.file.name # UploadTo \o run.pre.original_filename
    /\ run.pre.file.size # run.pre.file_size
    /\ documents[run.document_id].status \in Terminal
    /\ documents[run.document_id].file = run.pre.file

\* C15: no step changes or removes a Summary row that is there; the step in
\* which a run returns True adds exactly one Summary, of the run's Document;
\* every other step, those of a run that returns False included, adds none.
\* So the Summaries of a Document are as many as the runs on it that
\* returned True.
C15_OneSummaryPerTrueRun ==
    [][/\ Len(summaries') >= Len(summaries)
       /\ SubSeq(summaries', 1, Len(summaries)) = summaries
       /\ IF run.ret # "True" /\ run'.ret = "True"
          THEN /\ Len(summaries') = Len(summaries) + 1
               /\ summaries'[Len(summaries')].document = run'.document_id
               /\ run'.document_id = run.document_id
               /\ Len(summaries') = run'.pre_summaries + 1
          ELSE summaries' = summaries
       /\ (run.ret # "False" /\ run'.ret = "False")
             => Len(summaries') = run'.pre_summaries]_vars

\* C15's case: a second run on a Document that had a Summary has returned
\* True, and the Document has two.
C15_Witness ==
    /\ Returned
    /\ run.ret = "True"
    /\ run.pre_summaries = 1
    /\ Cardinality(SummariesOf(run.document_id)) = 2

\* C16: generate_soap_pdf answers with a PDF only for a Document that has
\* exactly one Summary; for a Document with none, and for one with two or
\* more, it raises, whatever the generator would do; and the call changes no
\* Document and no Summary.
C16_SoapPdfNeedsOneSummary ==
    /\ [](\A d \in DocIds, o \in SoapOutcomes :
            LET r == generate_soap_pdf_response(d, o)
            IN  /\ r.code = 200 => Cardinality(SummariesOf(d)) = 1
                /\ Cardinality(SummariesOf(d)) # 1 => r.code = 500)
    /\ [][(pc = "idle" /\ pc' = "responded" /\ resp'.op = "generate_soap_pdf")
            => /\ UNCHANGED <<documents, summaries>>
               /\ resp'.code = 200
                     => /\ resp'.document_id \in DocIds
                        /\ SummariesOf(resp'.document_id) = {resp'.summary}
               /\ (resp'.document_id \in DocIds
                     /\ Cardinality(SummariesOf(resp'.document_id)) # 1)
                     => resp'.code = 500]_vars

\* C16's case: generate_soap_pdf has been called for a Document that two
\* successful runs have left with two Summaries, and has raised.
C16_Witness ==
    /\ pc = "responded"
    /\ resp.op = "generate_soap_pdf"
    /\ resp.document_id \in DocIds
    /\ Cardinality(SummariesOf(resp.document_id)) = 2
    /\ resp.code = 500

====
